---- MODULE Spec2Model ----
(***************************************************************************)
(* Vault appliance bootstrap (scripts/_vault_bootstrap.py,                 *)
(* scripts/_vault_commands.py, scripts/_vault_state.py and the entry point *)
(* scripts/bootstrap_vault_appliance.py).                                  *)
(*                                                                         *)
(* One run of main() is a sequence of blocking external calls (doctl, ssh, *)
(* vault).  pc names the external call the process is about to issue; each *)
(* action issues that call, draws its response from the set of responses   *)
(* the callee can give, and runs the code up to the next external call.    *)
(* The process can be killed while it waits at any call.                   *)
(***************************************************************************)
EXTENDS Integers, Sequences, FiniteSets, TLC

VARIABLES
    pc,         \* the external call about to be issued, or a terminal position
    config,     \* VaultBootstrapConfig of the current run
    state,      \* the in-memory VaultBootstrapState
    disk,       \* the state file
    disk0,      \* history: the state file when the current run started
    status,     \* the status mapping held by bootstrap()
    hosts,      \* addresses returned by collect_droplet_ips
    hostIdx,    \* verify_vault_service: position in addresses
    attempt,    \* _probe_vault_service: loop variable attempt
    last_error, \* _probe_vault_service: last_error
    keyIdx,     \* unseal_vault: position in state.unseal_keys
    calls,      \* history: vault CLI invocations of the current run
    unsealedAt, \* history: number of the first unseal response of the run that
                \* reported sealed == false, 0 while there is none
    probes,     \* history: doctl/ssh invocations of the discovery and verify phase
    prev,       \* history: how the previous run on this state file ended
    tmp,        \* the temporary file save_state writes next to the state file
    last,       \* history: the response of the most recent external call
    err         \* the error that ended the run, "none" otherwise

vars == <<pc, config, state, disk, disk0, status, hosts, hostIdx, attempt,
          last_error, keyIdx, calls, unsealedAt, probes, prev, tmp, last, err>>

----------------------------------------------------------------------------
(* Bounds of the model *)

\* largest --key-shares value drawn
MaxShares == 3
\* number of distinct addresses the compute provider can report
MaxHosts == 2

----------------------------------------------------------------------------
(* Values *)

\* Python None, and the empty string
None == "None"
Empty == ""

\* a JSON boolean field of a response: present true, present false, or missing
JField == {"true", "false", "absent"}

\* dict.get(key, default) on such a field
Get(v, default) == IF v = "absent" THEN default ELSE v

\* Python truthiness of a JSON boolean
Truthy(v) == v = "true"

\* Python truthiness of an optional string
TruthyStr(s) == s /= None /\ s /= Empty

\* the i-th key share issued by the appliance (an opaque string)
Key(i) == "k" \o ToString(i)

Keys(n) == [i \in 1..n |-> Key(i)]

Addresses == {"h" \o ToString(i) : i \in 1..MaxHosts}

\* VaultBootstrapState()
DefaultState ==
    [unseal_keys |-> <<>>, root_token |-> None,
     approle_role_id |-> None, approle_secret_id |-> None]

\* VaultBootstrapState.update_from_init on a fresh VaultBootstrapState
UpdateFromInit(st, keys, root_token) ==
    [st EXCEPT !.unseal_keys = keys, !.root_token = root_token]

\* VaultBootstrapState.to_mapping
ToMapping(st) ==
    [unseal_keys |-> st.unseal_keys, root_token |-> st.root_token,
     approle_role_id |-> st.approle_role_id,
     approle_secret_id |-> st.approle_secret_id]

NoFile == [kind |-> "absent", payload |-> DefaultState]

\* no temporary file next to the state file
NoTmp == [kind |-> "absent", payload |-> DefaultState, synced |-> FALSE]

\* save_state: the file at path is replaced by the JSON dump of to_mapping()
SaveState(st) == [kind |-> "json", payload |-> ToMapping(st)]

\* the JSON types a field of the state document can have; "missing" is a
\* key the document does not hold
JsonTypes == {"missing", "null", "str", "int", "list_str", "list_int"}

\* payload.get("unseal_keys", []) passes _validate_list_str_field
ValidListStr(t) == t \in {"missing", "list_str"}

\* payload.get(name) passes _validate_optional_str_field
ValidOptionalStr(t) == t \in {"missing", "null", "str"}

\* a JSON object holding the given types under the four keys of the state
ObjectFile(k, r, i, s) ==
    [kind |-> "object", payload |-> DefaultState,
     types |-> [unseal_keys |-> k, root_token |-> r,
                approle_role_id |-> i, approle_secret_id |-> s]]

\* load_state: how the call ends: "ok" when it returns a state, else the
\* exception it raises.  A text that is not JSON and a field of the wrong
\* type raise VaultBootstrapError; a JSON value that is not an object has
\* no get method.
LoadOutcome(d) ==
    CASE d.kind \in {"absent", "json"} -> "ok"
      [] d.kind = "badjson" -> "StateCorrupt"
      [] d.kind = "nonobject" -> "AttributeError"
      [] OTHER ->
            IF /\ ValidListStr(d.types.unseal_keys)
               /\ ValidOptionalStr(d.types.root_token)
               /\ ValidOptionalStr(d.types.approle_role_id)
               /\ ValidOptionalStr(d.types.approle_secret_id)
              THEN "ok" ELSE "StateCorrupt"

\* faulty variant: the state file is never read
LoadState_Default(d) == DefaultState

\* load_state: the default state when the file does not exist, else the
\* validated fields of the JSON document
LoadState(d) ==
    IF d.kind = "absent" THEN DefaultState ELSE d.payload

NoConfig == [key_shares |-> 0, key_threshold |-> 0, rotate_secret_id |-> FALSE]
NoStatus == [initialized |-> "absent", sealed |-> "absent"]
NoResponse == [cmd |-> "none", rc |-> "none"]

----------------------------------------------------------------------------
(* Entry point: build_config and main *)

\* faulty variant: a threshold one above the share count is let through
ThresholdExceedsShares_OffByOne(key_shares, key_threshold) ==
    key_threshold > key_shares + 1

\* _resolve_shamir_config: the check that raises SystemExit
ThresholdExceedsShares(key_shares, key_threshold) == key_threshold > key_shares

\* state files that are not the output of save_state: a text that is not
\* JSON, a JSON array, objects with a field of the wrong type, and the
\* empty object
ForeignFiles ==
    {[kind |-> "badjson", payload |-> DefaultState],
     [kind |-> "nonobject", payload |-> DefaultState],
     ObjectFile("list_int", "str", "null", "null"),
     ObjectFile("str", "missing", "missing", "missing"),
     ObjectFile("list_str", "int", "null", "null"),
     ObjectFile("missing", "missing", "missing", "list_str"),
     ObjectFile("missing", "missing", "missing", "missing")}

\* the state files a first run can find
InitialFiles ==
    {NoFile} \cup ForeignFiles \cup
    { [kind |-> "json",
       payload |-> [unseal_keys |-> k, root_token |-> r,
                    approle_role_id |-> c[1], approle_secret_id |-> c[2]]] :
        k \in {<<>>, Keys(MaxShares)},
        r \in {None, "root"},
        c \in {<<None, None>>, <<"rid", "s1">>, <<"rid", Empty>>} }

Init ==
    /\ pc = "idle"
    /\ config = NoConfig
    /\ state = DefaultState
    /\ disk \in InitialFiles
    /\ disk0 = disk
    /\ status = NoStatus
    /\ hosts = <<>>
    /\ hostIdx = 1
    /\ attempt = 0
    /\ last_error = "none"
    /\ keyIdx = 1
    /\ calls = <<>>
    /\ unsealedAt = 0
    /\ probes = <<>>
    /\ prev = "none"
    /\ tmp = NoTmp
    /\ last = NoResponse
    /\ err = "none"

Terminal == {"idle", "done", "failed", "rejected", "killed"}

\* faulty variant: the exception is recorded but the run goes on
Raise_Continues(e) ==
    /\ pc' = pc
    /\ err' = e

\* the run ends with an exception
Raise(e) ==
    /\ pc' = "failed"
    /\ err' = e

\* operator init returned a payload that initialise_vault accepted
InitSucceeded ==
    \E i \in DOMAIN calls :
        calls[i].cmd = "init" /\ (i < Len(calls) \/ pc /= "failed")

\* how the run that has just ended went: it returned, it was killed or
\* failed after the state operator init issued was saved, or it ended otherwise
RunOutcome ==
    CASE pc = "done" -> "done"
      [] pc \in {"failed", "killed"} /\ InitSucceeded -> "interrupted"
      [] pc = "idle" -> "none"
      [] OTHER -> "other"

\* main: build_config, then bootstrap(config)
Main ==
    /\ pc \in Terminal
    /\ \E ks \in {MaxShares}, kt \in {MaxShares - 1, MaxShares + 1},
          rot \in BOOLEAN :
          /\ config' = [key_shares |-> ks, key_threshold |-> kt,
                        rotate_secret_id |-> rot]
          /\ IF ThresholdExceedsShares(ks, kt)
               THEN /\ pc' = "rejected"
                    /\ err' = "SystemExit"
               ELSE /\ pc' = "doctl"
                    /\ err' = "none"
    /\ state' = DefaultState
    /\ disk0' = disk
    /\ status' = NoStatus
    /\ hosts' = <<>>
    /\ hostIdx' = 1
    /\ attempt' = 0
    /\ last_error' = "none"
    /\ keyIdx' = 1
    /\ calls' = <<>>
    /\ unsealedAt' = 0
    /\ probes' = <<>>
    /\ prev' = RunOutcome
    /\ last' = NoResponse
    /\ UNCHANGED <<disk, tmp>>

----------------------------------------------------------------------------
(* Host discovery: _load_droplets, _iter_public_ipv4, collect_droplet_ips *)

Iface(type, ip) == [type |-> type, ip_address |-> ip]

OtherAddress(a) == CHOOSE b \in Addresses : MaxHosts = 1 \/ b /= a

\* the instance lists doctl can print; a droplet is its networks.v4 list
DropletPayloads ==
    {<<>>,
     << <<Iface("private", "h1")>> >>,
     << <<Iface("public", Empty)>> >>}
    \cup { << <<Iface("public", a), Iface("private", OtherAddress(a))>> >> :
             a \in Addresses }
    \cup { << <<Iface("public", a)>>, <<Iface("public", b), Iface("public", a)>> >> :
             a \in Addresses, b \in Addresses }

RECURSIVE Flatten(_)
\* the interfaces in the order the nested loops of _iter_public_ipv4 visit them
Flatten(droplets) ==
    IF droplets = <<>> THEN <<>>
    ELSE Head(droplets) \o Flatten(Tail(droplets))

Range(s) == {s[i] : i \in 1..Len(s)}

RECURSIVE IterFrom(_, _)
\* the loop body of _iter_public_ipv4 over the remaining interfaces,
\* seen being the addresses yielded so far
IterFrom(ifaces, seen) ==
    IF ifaces = <<>> THEN seen
    ELSE LET interface == Head(ifaces)
             ip == interface.ip_address
         IN  IF interface.type /= "public" THEN IterFrom(Tail(ifaces), seen)
             ELSE IF ip = Empty \/ ip \in Range(seen) THEN IterFrom(Tail(ifaces), seen)
             ELSE IterFrom(Tail(ifaces), Append(seen, ip))

\* faulty variant: the address of every interface is yielded
IterPublicIpv4_AllInterfaces(droplets) ==
    [i \in DOMAIN Flatten(droplets) |-> Flatten(droplets)[i].ip_address]

\* list(_iter_public_ipv4(droplets))
IterPublicIpv4(droplets) == IterFrom(Flatten(droplets), <<>>)

\* what the doctl invocation can return
DoctlResponses ==
    {[cmd |-> "doctl", rc |-> r] : r \in {"fail", "badjson", "notlist"}}
    \cup {[cmd |-> "doctl", rc |-> "ok", droplets |-> d] : d \in DropletPayloads}

\* faulty variant: an empty address list is returned like any other
NoAddresses_Never(addresses) == FALSE

\* collect_droplet_ips: if not addresses
NoAddresses(addresses) == addresses = <<>>

\* _discover_and_verify, first half: collect_droplet_ips(config.droplet_tag)
CollectDropletIps ==
    /\ pc = "doctl"
    /\ \E r \in DoctlResponses :
          /\ last' = r
          /\ probes' = Append(probes, "doctl")
          /\ CASE r.rc = "fail" ->
                    /\ Raise("CommandFailed")
                    /\ hosts' = hosts
               [] r.rc \in {"badjson", "notlist"} ->
                    /\ Raise("InvalidDropletList")
                    /\ hosts' = hosts
               [] OTHER ->
                    LET addresses == IterPublicIpv4(r.droplets)
                    IN  /\ hosts' = addresses
                        /\ IF NoAddresses(addresses)
                             THEN Raise("NoHostsFound")
                             ELSE pc' = "ssh" /\ err' = err
    /\ UNCHANGED <<prev, tmp, config, state, disk, disk0, status, hostIdx, attempt,
                   last_error, keyIdx, calls, unsealedAt>>

----------------------------------------------------------------------------
(* Health verification: verify_vault_service, _probe_vault_service *)

\* attempts per host: range(3)
ProbeAttempts == 3

\* _probe_vault_service: CommandContext(timeout=30), in seconds
SshTimeout == 30

\* the timeout a command is run with, as the set holding it: empty for
\* CommandContext.timeout = None, the default every doctl and vault call
\* site leaves in place
Timeout(cmd) == IF cmd = "ssh" THEN {SshTimeout} ELSE {}

\* str.strip() on the outputs systemctl is-active prints
Strip(out) ==
    CASE out = "active\n" -> "active"
      [] out = "inactive\n" -> "inactive"
      [] OTHER -> out

\* what one ssh invocation can return; a timeout raises plumbum's
\* ProcessTimedOut, which run_command does not convert
SshResponses ==
    {[cmd |-> "ssh", rc |-> r, stdout |-> Empty] : r \in {"fail", "timeout"}}
    \cup {[cmd |-> "ssh", rc |-> "ok", stdout |-> o] : o \in {"active\n", "inactive\n"}}

\* faulty variant: any output of a probe that exits zero counts as active
ProbeVerdict_AnyOutput(r) ==
    CASE r.rc = "timeout" -> "crash"
      [] r.rc = "fail" -> "retry"
      [] OTHER -> "return"

\* the probe's verdict on one attempt: "return", "retry" or "crash"
ProbeVerdict(r) ==
    CASE r.rc = "timeout" -> "crash"
      [] r.rc = "fail" -> "retry"
      [] OTHER -> IF Strip(r.stdout) = "active" THEN "return" ELSE "retry"

\* last_error after an attempt that did not return
ProbeError(r) ==
    IF r.rc = "fail" THEN "CommandFailed" ELSE "ServiceNotActive"

\* bootstrap: state = load_state(config.state_file), reached when every
\* address has been verified; the run goes on to the first status query.
\* The locals of _discover_and_verify go out of scope, and the history of
\* its invocations is dropped with them.
LoadAndContinue ==
    /\ hosts' = <<>>
    /\ hostIdx' = 1
    /\ probes' = <<>>
    /\ IF LoadOutcome(disk) = "ok"
         THEN /\ state' = LoadState(disk)
              /\ pc' = "status1"
              /\ err' = err
         ELSE /\ Raise(LoadOutcome(disk))
              /\ state' = state

\* faulty variant: the loop makes one attempt more
RetryProbe_OneMore(n) == n < ProbeAttempts

\* _probe_vault_service: attempt n (from 0) is followed by another,
\* for attempt in range(3)
RetryProbe(n) == n < ProbeAttempts - 1

\* one iteration of the retry loop of _probe_vault_service for
\* addresses[hostIdx], inside the loop of verify_vault_service
ProbeVaultService ==
    /\ pc = "ssh"
    /\ \E r \in SshResponses :
          /\ last' = r
          /\ CASE ProbeVerdict(r) = "crash" ->
                    /\ Raise("ProcessTimedOut")
                    /\ probes' = Append(probes, hosts[hostIdx])
                    /\ UNCHANGED <<state, hosts, hostIdx, attempt, last_error>>
               [] ProbeVerdict(r) = "return" ->
                    /\ attempt' = 0
                    /\ last_error' = "none"
                    /\ IF hostIdx < Len(hosts)
                         THEN /\ hostIdx' = hostIdx + 1
                              /\ probes' = Append(probes, hosts[hostIdx])
                              /\ pc' = "ssh"
                              /\ UNCHANGED <<state, hosts, err>>
                         ELSE LoadAndContinue
               [] OTHER ->
                    /\ last_error' = ProbeError(r)
                    /\ probes' = Append(probes, hosts[hostIdx])
                    /\ IF RetryProbe(attempt)
                         THEN /\ attempt' = attempt + 1
                              /\ pc' = "ssh"
                              /\ UNCHANGED <<state, hosts, hostIdx, err>>
                         ELSE /\ Raise(ProbeError(r))
                              /\ UNCHANGED <<state, hosts, hostIdx, attempt>>
    /\ UNCHANGED <<prev, tmp, config, disk, disk0, status, keyIdx, calls, unsealedAt>>

----------------------------------------------------------------------------
(* Status, initialisation and unseal: fetch_vault_status, initialise_vault, *)
(* unseal_vault, _ensure_initialized, _ensure_unsealed                      *)

\* an entry of the invocation history: the vault subcommand, the key share
\* passed to operator unseal, and what the call returned where the run keeps
\* it (the root token of operator init, the output of the role-id read)
Call(cmd, arg, out) == [cmd |-> cmd, arg |-> arg, out |-> out]

\* the status mappings the appliance can report
StatusPayloads ==
    {[initialized |-> "false", sealed |-> "true"],
     [initialized |-> "absent", sealed |-> "true"],
     [initialized |-> "true", sealed |-> "true"],
     [initialized |-> "true", sealed |-> "false"],
     [initialized |-> "true", sealed |-> "absent"]}

\* what `vault status -format=json` can return
StatusResponses ==
    {[cmd |-> "status", rc |-> r, initialized |-> "absent", sealed |-> "absent"] :
        r \in {"fail", "badjson"}}
    \cup {[cmd |-> "status", rc |-> "ok", initialized |-> p.initialized,
           sealed |-> p.sealed] : p \in StatusPayloads}

StatusOf(r) == [initialized |-> r.initialized, sealed |-> r.sealed]

\* the fields of a status response as the invocation history keeps them
StatusText(r) ==
    IF r.rc = "ok" THEN r.initialized \o "/" \o r.sealed ELSE Empty

\* faulty variant: the appliance is taken to be uninitialised whatever it reports
IsInitialized_Never(st) == FALSE

\* _ensure_initialized: status.get("initialized", False)
IsInitialized(st) == Truthy(Get(st.initialized, "false"))

\* faulty variant: the appliance is taken to be sealed whatever it reports
IsSealed_Always(st) == TRUE

\* _ensure_unsealed: status.get("sealed", False)
IsSealed(st) == Truthy(Get(st.sealed, "false"))

\* faulty variant: the root token is not checked
CheckRootToken_Skipped(st) ==
    /\ status' = NoStatus
    /\ keyIdx' = keyIdx
    /\ pc' = "secrets_list"
    /\ err' = err

\* bootstrap: the root token check that follows _ensure_unsealed; status is
\* not read again and is dropped here
CheckRootToken(st) ==
    /\ status' = NoStatus
    /\ keyIdx' = keyIdx
    /\ IF st.root_token = None
         THEN Raise("MissingRootToken")
         ELSE pc' = "secrets_list" /\ err' = err

\* faulty variant: a sealed vault is unsealed without looking at the recorded keys
EnsureUnsealed_NoKeyCheck(st, stat) ==
    IF ~IsSealed(stat) THEN CheckRootToken(st)
    ELSE /\ status' = stat
         /\ keyIdx' = 1
         /\ pc' = "unseal"
         /\ err' = err

\* _ensure_unsealed up to its first external call, on the state and the
\* status mapping that _ensure_initialized returned
EnsureUnsealed(st, stat) ==
    IF ~IsSealed(stat) THEN CheckRootToken(st)
    ELSE /\ status' = stat
         /\ keyIdx' = 1
         /\ IF st.unseal_keys = <<>>
              THEN Raise("MissingUnsealMaterial")
              ELSE pc' = "unseal" /\ err' = err

\* _ensure_initialized: status = fetch_vault_status(env)
FetchStatus1 ==
    /\ pc = "status1"
    /\ \E r \in StatusResponses :
          /\ last' = r
          /\ calls' = Append(calls, Call("status", Empty, StatusText(r)))
          /\ CASE r.rc = "fail" ->
                    /\ Raise("CommandFailed")
                    /\ UNCHANGED <<status, keyIdx>>
               [] r.rc = "badjson" ->
                    /\ Raise("StatusUnreadable")
                    /\ UNCHANGED <<status, keyIdx>>
               [] OTHER ->
                    IF IsInitialized(StatusOf(r))
                      THEN EnsureUnsealed(state, StatusOf(r))
                      ELSE /\ status' = StatusOf(r)
                           /\ pc' = "init"
                           /\ UNCHANGED <<err, keyIdx>>
    /\ UNCHANGED <<prev, tmp, config, state, disk, disk0, hosts, hostIdx, attempt,
                   last_error, probes, unsealedAt>>

\* the payloads `vault operator init` can print for n key shares;
\* keys_kind tells a list from a missing or ill-typed unseal_keys_b64
InitPayloads(n) ==
    {[keys_kind |-> "list", unseal_keys_b64 |-> Keys(n), root_token |-> "root"],
     [keys_kind |-> "list", unseal_keys_b64 |-> Keys(n), root_token |-> Empty],
     [keys_kind |-> "list", unseal_keys_b64 |-> Keys(n), root_token |-> None],
     [keys_kind |-> "list", unseal_keys_b64 |-> <<>>, root_token |-> "root"],
     [keys_kind |-> "absent", unseal_keys_b64 |-> <<>>, root_token |-> "root"],
     [keys_kind |-> "notlist", unseal_keys_b64 |-> <<>>, root_token |-> "root"]}

InitResponses(n) ==
    {[cmd |-> "init", rc |-> r, keys_kind |-> "absent", unseal_keys_b64 |-> <<>>,
      root_token |-> None] : r \in {"fail", "badjson"}}
    \cup {[cmd |-> "init", rc |-> "ok", keys_kind |-> p.keys_kind,
           unseal_keys_b64 |-> p.unseal_keys_b64, root_token |-> p.root_token] :
            p \in InitPayloads(n)}

\* initialise_vault: the payload check,
\* not isinstance(unseal_keys, list) or root_token is None
InitPayloadRejected(r) == r.keys_kind /= "list" \/ r.root_token = None

\* faulty variant: the state is not saved before the status is queried again
PersistInit_Skipped(st) ==
    /\ disk' = disk
    /\ pc' = "status2"
    /\ err' = err

\* _ensure_initialized: save_state(config.state_file, state) on the state
\* initialise_vault returned, before the status is queried again
PersistInit(st) ==
    /\ disk' = SaveState(st)
    /\ pc' = "status2"
    /\ err' = err

\* _ensure_initialized: state = initialise_vault(config, env);
\* save_state(config.state_file, state)
InitialiseVault ==
    /\ pc = "init"
    /\ \E r \in InitResponses(config.key_shares) :
          /\ last' = r
          /\ calls' = Append(calls, Call("init", Empty, r.root_token))
          /\ CASE r.rc = "fail" ->
                    /\ Raise("CommandFailed")
                    /\ UNCHANGED <<state, disk>>
               [] r.rc = "badjson" ->
                    /\ Raise("InvalidInitJson")
                    /\ UNCHANGED <<state, disk>>
               [] OTHER ->
                    IF InitPayloadRejected(r)
                      THEN /\ Raise("InitializationIncomplete")
                           /\ UNCHANGED <<state, disk>>
                      ELSE /\ state' = UpdateFromInit(DefaultState,
                                            r.unseal_keys_b64, r.root_token)
                           /\ PersistInit(state')
    /\ UNCHANGED <<prev, tmp, config, disk0, status, hosts, hostIdx, attempt, last_error,
                   keyIdx, probes, unsealedAt>>

\* _ensure_initialized: refreshed = fetch_vault_status(env)
FetchStatus2 ==
    /\ pc = "status2"
    /\ \E r \in StatusResponses :
          /\ last' = r
          /\ calls' = Append(calls, Call("status", Empty, Empty))
          /\ CASE r.rc = "fail" ->
                    /\ Raise("CommandFailed")
                    /\ UNCHANGED <<status, keyIdx>>
               [] r.rc = "badjson" ->
                    /\ Raise("StatusUnreadable")
                    /\ UNCHANGED <<status, keyIdx>>
               [] OTHER -> EnsureUnsealed(state, StatusOf(r))
    /\ UNCHANGED <<prev, tmp, config, state, disk, disk0, hosts, hostIdx, attempt,
                   last_error, probes, unsealedAt>>

\* what `vault operator unseal -format=json <share>` can return
UnsealResponses ==
    {[cmd |-> "unseal", rc |-> r, sealed |-> "absent"] : r \in {"fail", "badjson"}}
    \cup {[cmd |-> "unseal", rc |-> "ok", sealed |-> v] : v \in JField}

\* faulty variants: the loop over the key shares never breaks, and a response
\* without a sealed field counts as unsealed
UnsealBreaks_Never(r) == FALSE
UnsealBreaks_DefaultFalse(r) == ~Truthy(Get(r.sealed, "false"))

\* unseal_vault: the loop exit test, not payload.get("sealed", True)
UnsealBreaks(r) == ~Truthy(Get(r.sealed, "true"))

\* unseal_vault: one iteration of the loop over state.unseal_keys
UnsealVault ==
    /\ pc = "unseal"
    /\ IF state.unseal_keys = <<>>
         THEN /\ Raise("MissingUnsealMaterial")
              /\ UNCHANGED <<last, calls, unsealedAt, keyIdx>>
         ELSE \E r \in UnsealResponses :
          /\ last' = r
          /\ calls' = Append(calls, Call("unseal", state.unseal_keys[keyIdx], Empty))
          /\ unsealedAt' = IF unsealedAt = 0 /\ r.rc = "ok" /\ r.sealed = "false"
                              THEN keyIdx ELSE unsealedAt
          /\ CASE r.rc = "fail" ->
                    /\ Raise("CommandFailed")
                    /\ UNCHANGED keyIdx
               [] r.rc = "badjson" ->
                    /\ Raise("InvalidUnsealJson")
                    /\ UNCHANGED keyIdx
               [] OTHER ->
                    IF UnsealBreaks(r)
                      THEN /\ pc' = "status3"
                           /\ UNCHANGED <<err, keyIdx>>
                      ELSE IF keyIdx < Len(state.unseal_keys)
                             THEN /\ keyIdx' = keyIdx + 1
                                  /\ pc' = "unseal"
                                  /\ err' = err
                             ELSE /\ Raise("UnsealExhausted")
                                  /\ UNCHANGED keyIdx
    /\ UNCHANGED <<prev, tmp, config, state, disk, disk0, status, hosts, hostIdx, attempt,
                   last_error, probes>>

\* faulty variant: the status queried after the unseal is not looked at
RemainsSealed_Ignored(stat) == FALSE

\* _ensure_unsealed: the test on the status queried again after unseal_vault
RemainsSealed(stat) == IsSealed(stat)

\* _ensure_unsealed: refreshed = fetch_vault_status(env) after unseal_vault
FetchStatus3 ==
    /\ pc = "status3"
    /\ \E r \in StatusResponses :
          /\ last' = r
          /\ calls' = Append(calls, Call("status", Empty, Empty))
          /\ CASE r.rc = "fail" ->
                    /\ Raise("CommandFailed")
                    /\ UNCHANGED <<status, keyIdx>>
               [] r.rc = "badjson" ->
                    /\ Raise("StatusUnreadable")
                    /\ UNCHANGED <<status, keyIdx>>
               [] OTHER ->
                    IF RemainsSealed(StatusOf(r))
                      THEN /\ Raise("PostUnsealStillSealed")
                           /\ status' = StatusOf(r)
                           /\ UNCHANGED keyIdx
                      ELSE CheckRootToken(state)
    /\ UNCHANGED <<prev, tmp, config, state, disk, disk0, hosts, hostIdx, attempt,
                   last_error, probes, unsealedAt>>

----------------------------------------------------------------------------
(* Secrets engine convergence: ensure_kv_engine, _validate_kv_mount *)

\* mounts.get(mount_key) of the `vault secrets list` mapping: no entry, or
\* an entry with its type and its options.version
MountEntries ==
    {[present |-> FALSE, type |-> "absent", version |-> "absent"],
     [present |-> TRUE, type |-> "kv", version |-> "2"],
     [present |-> TRUE, type |-> "kv", version |-> "1"],
     [present |-> TRUE, type |-> "kv", version |-> "absent"],
     [present |-> TRUE, type |-> "pki", version |-> "absent"],
     [present |-> TRUE, type |-> "generic", version |-> "2"]}

SecretsListResponses ==
    {[cmd |-> "secrets_list", rc |-> r,
      mount |-> [present |-> FALSE, type |-> "absent", version |-> "absent"]] :
        r \in {"fail", "badjson"}}
    \cup {[cmd |-> "secrets_list", rc |-> "ok", mount |-> m] : m \in MountEntries}

\* faulty variant: the version of the existing mount is not checked
ValidKvMount_TypeOnly(existing) == existing.type = "kv"

\* _validate_kv_mount: TRUE when the existing mount is accepted
ValidKvMount(existing) == existing.type = "kv" /\ existing.version = "2"

\* the mount a secrets list response shows, as the invocation history keeps it
MountText(r) ==
    IF r.rc /= "ok" THEN Empty
    ELSE IF ~r.mount.present THEN "absent"
    ELSE r.mount.type \o "/" \o r.mount.version

\* ensure_kv_engine: `vault secrets list`, then the check of the mount found
SecretsList ==
    /\ pc = "secrets_list"
    /\ \E r \in SecretsListResponses :
          /\ last' = r
          /\ calls' = Append(calls, Call("secrets_list", Empty, MountText(r)))
          /\ CASE r.rc = "fail" -> Raise("CommandFailed")
               [] r.rc = "badjson" -> Raise("InvalidSecretsListJson")
               [] OTHER ->
                    IF ~r.mount.present
                      THEN pc' = "secrets_enable" /\ err' = err
                      ELSE IF ValidKvMount(r.mount)
                             THEN pc' = "auth_list" /\ err' = err
                             ELSE Raise("MountConflict")
    /\ UNCHANGED <<prev, tmp, config, state, disk, disk0, status, hosts, hostIdx, attempt,
                   last_error, keyIdx, probes, unsealedAt>>

\* a command whose output is not read: it succeeds or exits non-zero
PlainResponses(cmd) == {[cmd |-> cmd, rc |-> r] : r \in {"ok", "fail"}}

\* ensure_kv_engine: `vault secrets enable -path=... -version=2 kv`
SecretsEnable ==
    /\ pc = "secrets_enable"
    /\ \E r \in PlainResponses("secrets_enable") :
          /\ last' = r
          /\ calls' = Append(calls, Call("secrets_enable", Empty, Empty))
          /\ IF r.rc = "fail" THEN Raise("CommandFailed")
                              ELSE pc' = "auth_list" /\ err' = err
    /\ UNCHANGED <<prev, tmp, config, state, disk, disk0, status, hosts, hostIdx, attempt,
                   last_error, keyIdx, probes, unsealedAt>>

----------------------------------------------------------------------------
(* Identity provisioning: ensure_approle and its helpers *)

AuthListResponses ==
    {[cmd |-> "auth_list", rc |-> r, approle |-> FALSE] : r \in {"fail", "badjson"}}
    \cup {[cmd |-> "auth_list", rc |-> "ok", approle |-> b] : b \in BOOLEAN}

\* whether an auth list response shows approle/, as the invocation history
\* keeps it
AuthText(r) ==
    IF r.rc /= "ok" THEN Empty
    ELSE IF r.approle THEN "approle" ELSE "absent"

\* _ensure_approle_auth_enabled: `vault auth list`
AuthList ==
    /\ pc = "auth_list"
    /\ \E r \in AuthListResponses :
          /\ last' = r
          /\ calls' = Append(calls, Call("auth_list", Empty, AuthText(r)))
          /\ CASE r.rc = "fail" -> Raise("CommandFailed")
               [] r.rc = "badjson" -> Raise("InvalidAuthListJson")
               [] OTHER ->
                    /\ pc' = IF r.approle THEN "policy_write" ELSE "auth_enable"
                    /\ err' = err
    /\ UNCHANGED <<prev, tmp, config, state, disk, disk0, status, hosts, hostIdx, attempt,
                   last_error, keyIdx, probes, unsealedAt>>

\* _ensure_approle_auth_enabled: `vault auth enable approle`
AuthEnable ==
    /\ pc = "auth_enable"
    /\ \E r \in PlainResponses("auth_enable") :
          /\ last' = r
          /\ calls' = Append(calls, Call("auth_enable", Empty, Empty))
          /\ IF r.rc = "fail" THEN Raise("CommandFailed")
                              ELSE pc' = "policy_write" /\ err' = err
    /\ UNCHANGED <<prev, tmp, config, state, disk, disk0, status, hosts, hostIdx, attempt,
                   last_error, keyIdx, probes, unsealedAt>>

\* _write_approle_policy: `vault policy write <name> -`
WriteApprolePolicy ==
    /\ pc = "policy_write"
    /\ \E r \in PlainResponses("policy_write") :
          /\ last' = r
          /\ calls' = Append(calls, Call("policy_write", Empty, Empty))
          /\ IF r.rc = "fail" THEN Raise("CommandFailed")
                              ELSE pc' = "role_write" /\ err' = err
    /\ UNCHANGED <<prev, tmp, config, state, disk, disk0, status, hosts, hostIdx, attempt,
                   last_error, keyIdx, probes, unsealedAt>>

\* _configure_approle_role: `vault write auth/approle/role/<name> ...`
ConfigureApproleRole ==
    /\ pc = "role_write"
    /\ \E r \in PlainResponses("role_write") :
          /\ last' = r
          /\ calls' = Append(calls, Call("role_write", Empty, Empty))
          /\ IF r.rc = "fail" THEN Raise("CommandFailed")
                              ELSE pc' = "role_id" /\ err' = err
    /\ UNCHANGED <<prev, tmp, config, state, disk, disk0, status, hosts, hostIdx, attempt,
                   last_error, keyIdx, probes, unsealedAt>>

\* what `vault read -field=role_id .../role-id` can print
RoleIdResponses ==
    {[cmd |-> "role_id", rc |-> "fail", stdout |-> Empty]}
    \cup {[cmd |-> "role_id", rc |-> "ok", stdout |-> o] : o \in {"rid\n", "\n"}}

\* _fetch_role_id: stdout.strip() or None
RoleIdOf(stdout) ==
    LET role_id == IF stdout = "rid\n" THEN "rid" ELSE Empty
    IN  IF role_id = Empty THEN None ELSE role_id

\* faulty variants of should_rotate: rotating on every run, and ignoring the flag
ShouldRotate_Always(cfg, st) == TRUE
ShouldRotate_IgnoresFlag(cfg, st) == ~TruthyStr(st.approle_secret_id)
ShouldRotate_OnlyFlag(cfg, st) == cfg.rotate_secret_id

\* ensure_approle: should_rotate
ShouldRotate(cfg, st) ==
    cfg.rotate_secret_id \/ ~TruthyStr(st.approle_secret_id)

\* bootstrap: save_state(config.state_file, state); return state
\* faulty variant: only the role id and role secret are written
SaveAndReturn_IdentityOnly(st) ==
    /\ disk' = SaveState([DefaultState EXCEPT
                            !.approle_role_id = st.approle_role_id,
                            !.approle_secret_id = st.approle_secret_id])
    /\ pc' = "done"
    /\ err' = err

SaveAndReturn(st) ==
    /\ disk' = SaveState(st)
    /\ pc' = "done"
    /\ err' = err

\* faulty variant: the state is saved as soon as the role id is known
AwaitSecretId_SavesRoleId(st) ==
    /\ pc' = "secret_id"
    /\ disk' = SaveState(st)
    /\ err' = err

\* ensure_approle: between _fetch_role_id and _generate_secret_id the role
\* id is held in memory only
AwaitSecretId(st) ==
    /\ pc' = "secret_id"
    /\ disk' = disk
    /\ err' = err

\* ensure_approle: state.approle_role_id = _fetch_role_id(config, env),
\* then the rotation decision
FetchRoleId ==
    /\ pc = "role_id"
    /\ \E r \in RoleIdResponses :
          /\ last' = r
          /\ calls' = Append(calls, Call("role_id", Empty, r.stdout))
          /\ IF r.rc = "fail"
               THEN /\ Raise("CommandFailed")
                    /\ UNCHANGED <<state, disk>>
               ELSE /\ state' = [state EXCEPT !.approle_role_id = RoleIdOf(r.stdout)]
                    /\ IF ShouldRotate(config, state')
                         THEN AwaitSecretId(state')
                         ELSE SaveAndReturn(state')
    /\ UNCHANGED <<prev, tmp, config, disk0, status, hosts, hostIdx, attempt, last_error,
                   keyIdx, probes, unsealedAt>>

\* the secret ids the appliance hands out
SecretIds == {"s1", "s2"}

\* a secret id the appliance has not issued before: none of those the state
\* or the state file of the run has recorded
IssuedSecretId(recorded) == CHOOSE s \in SecretIds : s \notin recorded

\* what `vault write -force -format=json .../secret-id` can return; secret_id
\* is None when data or data.secret_id is missing
SecretIdResponses(recorded) ==
    {[cmd |-> "secret_id", rc |-> r, secret_id |-> None] :
        r \in {"fail", "badjson", "ok"}}
    \cup {[cmd |-> "secret_id", rc |-> "ok", secret_id |-> IssuedSecretId(recorded)]}

\* ensure_approle: state.approle_secret_id = _generate_secret_id(config, env),
\* then bootstrap saves the state
GenerateSecretId ==
    /\ pc = "secret_id"
    /\ \E r \in SecretIdResponses({state.approle_secret_id,
                                     LoadState(disk0).approle_secret_id}) :
          /\ last' = r
          /\ calls' = Append(calls, Call("secret_id", Empty, Empty))
          /\ CASE r.rc = "fail" ->
                    /\ Raise("CommandFailed")
                    /\ UNCHANGED <<state, disk>>
               [] r.rc = "badjson" ->
                    /\ Raise("InvalidSecretIdJson")
                    /\ UNCHANGED <<state, disk>>
               [] OTHER ->
                    IF r.secret_id = None
                      THEN /\ Raise("SecretIdMissing")
                           /\ UNCHANGED <<state, disk>>
                      ELSE /\ state' = [state EXCEPT !.approle_secret_id = r.secret_id]
                           /\ SaveAndReturn(state')
    /\ UNCHANGED <<prev, tmp, config, disk0, status, hosts, hostIdx, attempt, last_error,
                   keyIdx, probes, unsealedAt>>

----------------------------------------------------------------------------
\* the process is killed while it waits for an external call
Kill ==
    /\ pc \notin Terminal
    /\ pc' = "killed"
    /\ err' = "Killed"
    /\ UNCHANGED <<prev, tmp, config, state, disk, disk0, status, hosts, hostIdx, attempt,
                   last_error, keyIdx, calls, unsealedAt, probes, last>>

Next ==
    \/ Main
    \/ CollectDropletIps
    \/ ProbeVaultService
    \/ FetchStatus1
    \/ InitialiseVault
    \/ FetchStatus2
    \/ UnsealVault
    \/ FetchStatus3
    \/ SecretsList
    \/ SecretsEnable
    \/ AuthList
    \/ AuthEnable
    \/ WriteApprolePolicy
    \/ ConfigureApproleRole
    \/ FetchRoleId
    \/ GenerateSecretId
    \/ Kill

Spec == Init /\ [][Next]_vars

\* every external call returns: run_command blocks on the child and the run
\* is one thread, so a step that can be taken is taken
FairSpec == Spec /\ WF_vars(Next)

----------------------------------------------------------------------------
(* save_state, step by step.  pc is the step save_state is about to take;   *)
(* state is the state it was called with, disk the file at path and disk0   *)
(* its contents when save_state was called.  A file is "absent", "empty"    *)
(* (created or truncated), "partial" (a proper prefix of the JSON text) or  *)
(* "json" (the whole text); synced tells that it has been fsynced.          *)

\* the variables of a bootstrap run that save_state does not touch
runVars == <<config, status, hosts, hostIdx, attempt, last_error, keyIdx,
             calls, unsealedAt, probes, prev, last>>

\* the states bootstrap calls save_state with: the one initialise_vault
\* returned, and the one ensure_approle completed
SavedStates ==
    { [unseal_keys |-> k, root_token |-> r,
       approle_role_id |-> c[1], approle_secret_id |-> c[2]] :
        k \in {<<>>, Keys(MaxShares)},
        r \in {Empty, "root"},
        c \in {<<None, None>>, <<"rid", "s1">>, <<None, "s2">>} }

\* a temporary file an earlier, interrupted save_state can have left behind
StaleTmps ==
    {NoTmp,
     [kind |-> "partial", payload |-> DefaultState, synced |-> FALSE],
     [kind |-> "json", payload |-> DefaultState, synced |-> TRUE]}

SaveInit ==
    /\ pc = "save_open"
    /\ state \in SavedStates
    /\ disk \in InitialFiles
    /\ disk0 = disk
    /\ tmp \in StaleTmps
    /\ config = NoConfig
    /\ status = NoStatus
    /\ hosts = <<>>
    /\ hostIdx = 1
    /\ attempt = 0
    /\ last_error = "none"
    /\ keyIdx = 1
    /\ calls = <<>>
    /\ unsealedAt = 0
    /\ probes = <<>>
    /\ prev = "none"
    /\ last = NoResponse
    /\ err = "none"

SaveSteps == {"save_open", "save_write", "save_fsync", "save_replace", "save_chmod"}

\* faulty variant: the temporary file is renamed onto path as soon as it is opened
SaveStepAfter_ReplaceFirst(p) ==
    CASE p = "save_open" -> "save_replace"
      [] p = "save_replace" -> "save_write"
      [] p = "save_write" -> "save_fsync"
      [] p = "save_fsync" -> "save_chmod"
      [] OTHER -> "saved"

\* the order of the statements of save_state
SaveStepAfter(p) ==
    CASE p = "save_open" -> "save_write"
      [] p = "save_write" -> "save_fsync"
      [] p = "save_fsync" -> "save_replace"
      [] p = "save_replace" -> "save_chmod"
      [] OTHER -> "saved"

\* os.open(tmp_path, O_WRONLY | O_CREAT | O_TRUNC, 0o600)
SaveOpenTmp ==
    /\ pc = "save_open"
    /\ tmp' = [kind |-> "empty", payload |-> DefaultState, synced |-> FALSE]
    /\ pc' = SaveStepAfter(pc)
    /\ UNCHANGED <<runVars, state, disk, disk0, err>>

\* handle.write(payload); handle.flush(): the text reaches the temporary
\* file in two pieces
SaveWrite ==
    /\ pc = "save_write"
    /\ \/ /\ tmp.kind = "empty"
          /\ tmp' = [kind |-> "partial", payload |-> ToMapping(state), synced |-> FALSE]
          /\ pc' = pc
       \/ /\ tmp.kind = "partial"
          /\ tmp' = [kind |-> "json", payload |-> ToMapping(state), synced |-> FALSE]
          /\ pc' = SaveStepAfter(pc)
    /\ UNCHANGED <<runVars, state, disk, disk0, err>>

\* os.fsync(handle.fileno())
SaveFsync ==
    /\ pc = "save_fsync"
    /\ tmp.kind /= "absent"
    /\ tmp' = [tmp EXCEPT !.synced = TRUE]
    /\ pc' = SaveStepAfter(pc)
    /\ UNCHANGED <<runVars, state, disk, disk0, err>>

\* except Exception: os.unlink(tmp_path); raise
SaveWriteError ==
    /\ pc \in {"save_write", "save_fsync"}
    /\ tmp' = NoTmp
    /\ Raise("OSError")
    /\ UNCHANGED <<runVars, state, disk, disk0>>

\* tmp_path.replace(path)
SaveReplace ==
    /\ pc = "save_replace"
    /\ tmp.kind /= "absent"
    /\ disk' = [kind |-> tmp.kind, payload |-> tmp.payload]
    /\ tmp' = NoTmp
    /\ pc' = SaveStepAfter(pc)
    /\ UNCHANGED <<runVars, state, disk0, err>>

\* os.chmod(path, 0o600)
SaveChmod ==
    /\ pc = "save_chmod"
    /\ pc' = SaveStepAfter(pc)
    /\ UNCHANGED <<runVars, state, disk, disk0, tmp, err>>

\* the process crashes before the step it is about to take
SaveCrash ==
    /\ pc \in SaveSteps
    /\ pc' = "killed"
    /\ err' = "Killed"
    /\ UNCHANGED <<runVars, state, disk, disk0, tmp>>

SaveNext ==
    \/ SaveOpenTmp
    \/ SaveWrite
    \/ SaveFsync
    \/ SaveWriteError
    \/ SaveReplace
    \/ SaveChmod
    \/ SaveCrash

SaveSpec == SaveInit /\ [][SaveNext]_vars

----------------------------------------------------------------------------
(* Properties *)

\* number of invocations of a vault subcommand in the current run
Count(cmd) == Cardinality({i \in DOMAIN calls : calls[i].cmd = cmd})

\* the state the current run loaded, or will load, from the state file
Before == LoadState(disk0)

\* the current run has loaded the state file
HasLoaded == pc = "status1" \/ calls /= <<>>

\* the operator unseal invocations of the current run, in order
UnsealCalls == SelectSeq(calls, LAMBDA c : c.cmd = "unseal")

LastCall == calls[Len(calls)]

C2_RotationHonored ==
    /\ Count("secret_id") <= 1
    /\ (pc = "done" /\ config.rotate_secret_id)
         => /\ Count("secret_id") = 1
            /\ LastCall.cmd = "secret_id"
            /\ state.approle_secret_id = last.secret_id
            /\ state.approle_secret_id /= Before.approle_secret_id
            /\ LoadState(disk).approle_secret_id = state.approle_secret_id

C2_Witness ==
    /\ pc = "done"
    /\ config.rotate_secret_id
    /\ Before.approle_secret_id = "s1"
    /\ state.approle_secret_id = "s2"
    /\ Count("secret_id") = 1

\* C3: once operator init has returned an accepted payload, the state file
\* holds the issued key shares and root token: already when the next status
\* query is about to be issued, and for the rest of the run, whether it is
\* killed right after the init response, fails in a later phase or returns.
C3_InitDurable ==
    InitSucceeded
    => /\ disk.kind = "json"
       /\ disk.payload.unseal_keys = state.unseal_keys
       /\ disk.payload.root_token = state.root_token
       /\ \E i \in DOMAIN calls :
             calls[i].cmd = "init" /\ disk.payload.root_token = calls[i].out
       /\ (last.cmd = "init")
            => /\ disk.payload.unseal_keys = last.unseal_keys_b64
               /\ disk.payload.root_token = last.root_token

C3_Witness ==
    /\ pc = "killed"
    /\ last.cmd = "init"
    /\ InitSucceeded
    /\ disk0 = NoFile
    /\ Len(disk.payload.unseal_keys) = MaxShares
    /\ disk.payload.root_token = "root"

\* C4: the unseal step applies the stored key shares one at a time in stored
\* order, and the first response with sealed == false ends it: if that is
\* the k-th response, the run issues exactly k unseal calls.
C4_UnsealStopsAtFirstUnsealed ==
    /\ Len(UnsealCalls) <= Len(state.unseal_keys)
    /\ \A j \in 1..Len(UnsealCalls) : UnsealCalls[j].arg = state.unseal_keys[j]
    /\ unsealedAt /= 0 => Len(UnsealCalls) = unsealedAt
    /\ (last.cmd = "unseal" /\ last.rc = "ok" /\ last.sealed = "false")
         => unsealedAt = Len(UnsealCalls) /\ pc \in {"status3", "killed"}

C4_Witness ==
    /\ pc = "done"
    /\ unsealedAt = MaxShares - 1
    /\ Len(state.unseal_keys) = MaxShares
    /\ Len(UnsealCalls) = MaxShares - 1

\* C5: when secrets list shows a mount at the KV path whose type is not kv
\* or whose version is not 2, the run fails with MountConflict at once: no
\* secrets enable, no auth, policy, role or secret-id call follows, and the
\* state file is not written.
C5_MountConflict ==
    (/\ last.cmd = "secrets_list"
     /\ last.rc = "ok"
     /\ last.mount.present
     /\ (last.mount.type /= "kv" \/ last.mount.version /= "2"))
    => /\ pc = "failed"
       /\ err = "MountConflict"
       /\ LastCall.cmd = "secrets_list"
       /\ \A c \in {"secrets_enable", "auth_list", "auth_enable", "policy_write",
                    "role_write", "role_id", "secret_id"} : Count(c) = 0
       /\ (InitSucceeded \/ disk = disk0)

C5_Witness ==
    /\ err = "MountConflict"
    /\ last.cmd = "secrets_list"
    /\ last.mount.type = "kv"
    /\ last.mount.version = "1"

\* C6: a run that starts from an empty state against a fresh appliance
\* (first status not initialized, operator init answering with key_shares
\* shares and a root token, the unseal endpoint reporting unsealed at the
\* key_threshold-th share, a role id read back) and returns, ends with
\* key_shares key shares, a root token, a role id and a role secret in the
\* state and in the state file, after exactly one operator init call and
\* exactly key_threshold operator unseal calls.
C6_FreshAppliance ==
    (/\ pc = "done"
     /\ Before = DefaultState
     /\ Len(calls) >= 2
     /\ calls[1].cmd = "status"
     /\ calls[2].cmd = "init"
     /\ TruthyStr(calls[2].out)
     /\ unsealedAt = config.key_threshold
     /\ \E i \in DOMAIN calls : calls[i].cmd = "role_id" /\ calls[i].out = "rid\n")
    => /\ Len(state.unseal_keys) = config.key_shares
       /\ state.unseal_keys = Keys(config.key_shares)
       /\ TruthyStr(state.root_token)
       /\ TruthyStr(state.approle_role_id)
       /\ TruthyStr(state.approle_secret_id)
       /\ Count("init") = 1
       /\ Count("unseal") = config.key_threshold
       /\ Count("secret_id") = 1
       /\ disk = SaveState(state)

C6_Witness ==
    /\ pc = "done"
    /\ disk0 = NoFile
    /\ calls[2].cmd = "init"
    /\ unsealedAt = config.key_threshold
    /\ Count("unseal") = MaxShares - 1
    /\ Len(state.unseal_keys) = MaxShares
    /\ state.root_token = "root"
    /\ state.approle_role_id = "rid"
    /\ state.approle_secret_id \in SecretIds

\* C7: a key_threshold above key_shares is rejected while the configuration
\* is built, before doctl, ssh or vault is invoked; every run that gets past
\* the construction has key_threshold <= key_shares.
C7_ThresholdInvariant ==
    /\ (pc /= "idle" /\ config.key_threshold > config.key_shares)
         => /\ pc = "rejected"
            /\ err = "SystemExit"
            /\ calls = <<>>
            /\ probes = <<>>
            /\ last = NoResponse
            /\ disk = disk0
    /\ pc \notin {"idle", "rejected"} => config.key_threshold <= config.key_shares

C7_Witness ==
    /\ pc = "rejected"
    /\ config.key_threshold = MaxShares + 1
    /\ config.key_shares = MaxShares
    /\ calls = <<>>

\* the last response is the status the unseal decision was taken on: that of
\* the first query when it reported initialized, that of the second query
\* after operator init
DecisionStatus ==
    /\ last.cmd = "status"
    /\ last.rc = "ok"
    /\ Count("unseal") = 0
    /\ (Count("init") = 1 \/ Truthy(Get(last.initialized, "false")))

\* C8: when the status the unseal decision is taken on reports sealed == true
\* and the state holds no key shares, the run fails with
\* MissingUnsealMaterial and that status query is its last external call:
\* no operator unseal and no later-phase call is issued.
C8_MissingUnsealMaterial ==
    (/\ DecisionStatus
     /\ last.sealed = "true"
     /\ state.unseal_keys = <<>>)
    => /\ pc = "failed"
       /\ err = "MissingUnsealMaterial"
       /\ LastCall.cmd = "status"
       /\ \A c \in {"unseal", "secrets_list", "secrets_enable", "auth_list",
                    "auth_enable", "policy_write", "role_write", "role_id",
                    "secret_id"} : Count(c) = 0

C8_Witness ==
    /\ err = "MissingUnsealMaterial"
    /\ pc = "failed"
    /\ last.cmd = "status"
    /\ last.sealed = "true"
    /\ Count("init") = 0
    /\ Before.root_token = "root"

\* C9 as stated: an operator init response is accepted only if it holds a
\* non-empty list of key shares and a non-empty root token; on any other
\* response the run fails with InitializationIncomplete and the state file
\* is left as it was.
C9_Original ==
    (/\ last.cmd = "init"
     /\ last.rc = "ok"
     /\ ~(/\ last.keys_kind = "list"
          /\ last.unseal_keys_b64 /= <<>>
          /\ TruthyStr(last.root_token)))
    => /\ pc = "failed"
       /\ err = "InitializationIncomplete"
       /\ disk = disk0

\* C10: when every stored key share has been applied and no unseal response
\* reported sealed == false, the run fails with UnsealExhausted after one
\* unseal call per stored share, in stored order, and the last of them is
\* its last external call.
C10_UnsealExhausted ==
    (/\ Count("unseal") >= 1
     /\ Count("unseal") = Len(state.unseal_keys)
     /\ unsealedAt = 0
     /\ last.cmd = "unseal"
     /\ last.rc = "ok"
     /\ Truthy(Get(last.sealed, "true")))
    => /\ pc = "failed"
       /\ err = "UnsealExhausted"
       /\ LastCall.cmd = "unseal"
       /\ Len(UnsealCalls) = Len(state.unseal_keys)
       /\ \A j \in 1..Len(UnsealCalls) : UnsealCalls[j].arg = state.unseal_keys[j]
       /\ \A i, j \in 1..Len(UnsealCalls) :
             UnsealCalls[i].arg = UnsealCalls[j].arg => i = j

C10_Witness ==
    /\ err = "UnsealExhausted"
    /\ pc = "failed"
    /\ Count("unseal") = MaxShares
    /\ unsealedAt = 0

\* the vault subcommands of the secrets-engine and identity phases
LaterPhaseCmds ==
    {"secrets_list", "secrets_enable", "auth_list", "auth_enable",
     "policy_write", "role_write", "role_id", "secret_id"}

\* C11: after the unseal step has applied shares the status is queried at
\* most once more; when that status reports sealed == true the run fails
\* with PostUnsealStillSealed, the status query directly follows the last
\* unseal call and is the last external call of the run: the unseal is not
\* retried and no secrets-engine or identity call is issued.
C11_PostUnsealStillSealed ==
    /\ \A j \in DOMAIN calls :
          (j > 1 /\ calls[j - 1].cmd = "unseal")
            => /\ calls[j].cmd \in {"unseal", "status"}
               /\ calls[j].cmd = "status"
                    => \A k \in j + 1 .. Len(calls) :
                          calls[k].cmd \notin {"status", "unseal", "init"}
    /\ (/\ last.cmd = "status"
        /\ last.rc = "ok"
        /\ last.sealed = "true"
        /\ Count("unseal") >= 1)
       => /\ pc = "failed"
          /\ err = "PostUnsealStillSealed"
          /\ LastCall.cmd = "status"
          /\ calls[Len(calls) - 1].cmd = "unseal"
          /\ \A c \in LaterPhaseCmds : Count(c) = 0

C11_Witness ==
    /\ pc = "failed"
    /\ err = "PostUnsealStillSealed"
    /\ last.cmd = "status"
    /\ last.sealed = "true"
    /\ unsealedAt = MaxShares - 1
    /\ Count("unseal") = MaxShares - 1

\* an entry of the invocation history shows what the appliance a completed
\* run left behind answers: initialised and unsealed, the KV v2 mount and
\* the approle auth method in place, the role id the state file records
SteadyCall(c) ==
    CASE c.cmd = "status" -> c.out = "true/false"
      [] c.cmd = "secrets_list" -> c.out = "kv/2"
      [] c.cmd = "auth_list" -> c.out = "approle"
      [] c.cmd = "role_id" -> RoleIdOf(c.out) = Before.approle_role_id
      [] OTHER -> TRUE

\* the current run has loaded the state file and the appliance has answered
\* all its calls so far as the appliance a completed run left behind does
Steady ==
    /\ HasLoaded
    /\ \A i \in DOMAIN calls : SteadyCall(calls[i])
    /\ last.cmd /= "none" => last.rc = "ok"

\* C12: a run with rotate_secret_id false that follows a run that returned,
\* on the state file that run left and against the appliance answering as
\* that run left it, does not fail, issues no operator init, operator
\* unseal, secrets enable, auth enable or secret-id call, leaves the state
\* file contents as they were, and returns the state it loaded.
C12_IdempotentRerun ==
    (/\ prev = "done"
     /\ ~config.rotate_secret_id
     /\ Steady)
    => /\ pc /= "failed"
       /\ \A c \in {"init", "unseal", "secrets_enable", "auth_enable", "secret_id"} :
             Count(c) = 0
       /\ disk = disk0
       /\ pc = "done" => (state = Before /\ Len(calls) = 6)

C12_Witness ==
    /\ prev = "done"
    /\ ~config.rotate_secret_id
    /\ Steady
    /\ pc = "done"
    /\ Count("role_id") = 1
    /\ disk = disk0
    /\ state.approle_secret_id \in SecretIds

\* the first status query of the run reported initialized == true
FirstStatusInitialized ==
    /\ calls /= <<>>
    /\ calls[1].out \in {"true/true", "true/false", "true/absent"}

\* the failures that come from the appliance: a call that exited non-zero or
\* printed something unreadable, key shares that were not accepted, a
\* conflicting mount, a secret-id response without a secret id
ApplianceFailures ==
    {"CommandFailed", "StatusUnreadable", "InvalidUnsealJson", "UnsealExhausted",
     "PostUnsealStillSealed", "InvalidSecretsListJson", "MountConflict",
     "InvalidAuthListJson", "InvalidSecretIdJson", "SecretIdMissing"}

\* C13: a run that follows a run killed or failed after the state operator
\* init issued was saved finds that state in the state file; when the
\* appliance reports initialized it issues no operator init, keeps the stored
\* key shares and root token, applies the stored shares in order if it has
\* to unseal, and, with key shares stored, fails only on a failure that comes
\* from the appliance, so that it returns when the shares are accepted and
\* the remaining calls succeed.
C13_ResumeAfterInterruptedRun ==
    (prev = "interrupted" /\ HasLoaded)
    => /\ disk0.kind = "json"
       /\ disk0.payload.root_token /= None
       /\ FirstStatusInitialized
            => /\ Count("init") = 0
               /\ state.unseal_keys = disk0.payload.unseal_keys
               /\ state.root_token = disk0.payload.root_token
               /\ \A j \in 1..Len(UnsealCalls) :
                     UnsealCalls[j].arg = disk0.payload.unseal_keys[j]
               /\ (pc = "failed" /\ disk0.payload.unseal_keys /= <<>>)
                    => err \in ApplianceFailures
               /\ pc = "done"
                    => /\ disk.payload.unseal_keys = disk0.payload.unseal_keys
                       /\ disk.payload.root_token = disk0.payload.root_token

C13_Witness ==
    /\ prev = "interrupted"
    /\ pc = "done"
    /\ FirstStatusInitialized
    /\ Count("init") = 0
    /\ Count("unseal") = MaxShares - 1
    /\ state.unseal_keys = Keys(MaxShares)
    /\ state.root_token = "root"
    /\ state.approle_secret_id \in SecretIds

\* C14: when the first status query of a run reports initialized == true and
\* sealed == false, the run issues no operator init, no operator unseal and
\* no further status query; its next external call is secrets list, which
\* only a state without a root token prevents.
C14_SkipInitAndUnseal ==
    (calls /= <<>> /\ calls[1].out = "true/false")
    => /\ Count("init") = 0
       /\ Count("unseal") = 0
       /\ Count("status") = 1
       /\ Len(calls) >= 2 => calls[2].cmd = "secrets_list"
       /\ Len(calls) = 1
            => \/ pc = "secrets_list"
               \/ pc = "killed" /\ state.root_token /= None
               \/ pc = "failed" /\ err = "MissingRootToken" /\ state.root_token = None

C14_Witness ==
    /\ pc = "done"
    /\ calls[1].out = "true/false"
    /\ calls[2].cmd = "secrets_list"
    /\ Count("init") = 0
    /\ Count("unseal") = 0
    /\ Before.unseal_keys = Keys(MaxShares)

\* the phase an external call belongs to, by the position the run is at when
\* it issues the call: discovery, health verification, initialisation (after
\* the state load), unseal, secrets-engine convergence, identity provisioning
PhaseOf(p) ==
    CASE p = "doctl" -> 1
      [] p = "ssh" -> 2
      [] p \in {"status1", "init", "status2"} -> 4
      [] p \in {"unseal", "status3"} -> 5
      [] p \in {"secrets_list", "secrets_enable"} -> 6
      [] OTHER -> 7

\* the phase of the i-th vault invocation of the run
CallPhase(i) ==
    CASE calls[i].cmd \in {"init"} -> 4
      [] calls[i].cmd = "unseal" -> 5
      [] calls[i].cmd = "status" ->
            IF \E j \in 1..(i - 1) : calls[j].cmd = "unseal" THEN 5 ELSE 4
      [] calls[i].cmd \in {"secrets_list", "secrets_enable"} -> 6
      [] OTHER -> 7

\* one step of a run that neither starts nor ends it
StepInRun == pc \notin Terminal /\ pc' \notin Terminal

\* C15: a run goes through its phases in the order discovery, health
\* verification, state load, initialisation, unseal, secrets-engine
\* convergence, identity provisioning: the phase of the next external call
\* never decreases, the state is loaded exactly on leaving health
\* verification, no vault call is issued before that, and a run that has
\* failed is at an end: it issues no further external call of any phase, and
\* the next step is the start of a new run.
C15_PhaseOrder ==
    /\ [](/\ err /= "none" => pc \in {"failed", "rejected", "killed"}
          /\ pc \in {"doctl", "ssh"} => calls = <<>>
          /\ \A i \in DOMAIN calls : i > 1 => CallPhase(i - 1) <= CallPhase(i)
          /\ (pc \notin Terminal /\ calls /= <<>>)
               => CallPhase(Len(calls)) <= PhaseOf(pc))
    /\ [][/\ StepInRun => PhaseOf(pc) <= PhaseOf(pc')
          /\ (StepInRun /\ PhaseOf(pc) = 2 /\ PhaseOf(pc') > 2)
               => pc' = "status1" /\ state' = LoadState(disk)
          /\ pc = "failed"
               => pc' \in {"doctl", "rejected"} /\ calls' = <<>> /\ probes' = <<>>
          /\ pc' = "failed" => pc \notin Terminal]_vars

C15_Witness ==
    /\ pc = "failed"
    /\ err = "MountConflict"
    /\ Count("init") = 1
    /\ Count("unseal") = MaxShares - 1
    /\ Count("status") = 3
    /\ LastCall.cmd = "secrets_list"

\* C16: at every step of save_state, and after a crash at any of them, the
\* file at path holds the whole previous contents or the whole new contents,
\* never an empty or partly written file; path changes only by the rename,
\* and the temporary file that is renamed holds the whole new text and has
\* been fsynced.
C16_AtomicSave ==
    /\ [](/\ disk.kind \notin {"empty", "partial"}
          /\ disk \in {disk0, SaveState(state)}
          /\ pc \in {"save_chmod", "saved"} => disk = SaveState(state)
          /\ pc = "save_replace"
               => /\ tmp.kind = "json"
                  /\ tmp.payload = ToMapping(state)
                  /\ tmp.synced)
    /\ [][disk' /= disk
            => /\ pc = "save_replace"
               /\ tmp.kind = "json"
               /\ tmp.synced
               /\ disk' = SaveState(state)]_vars

C16_Witness ==
    /\ pc = "killed"
    /\ tmp.kind = "partial"
    /\ tmp.payload = ToMapping(state)
    /\ disk = disk0
    /\ disk.kind = "json"
    /\ disk /= SaveState(state)

\* load_state has just been called: the last host has reported active and the
\* process has not been killed at the step after
LoadAttempted ==
    /\ last.cmd = "ssh"
    /\ last.rc = "ok"
    /\ Strip(last.stdout) = "active"
    /\ pc \in {"status1", "failed"}

\* the file is a JSON object in which unseal_keys, if present, is a list of
\* strings and each of the other three fields, if present, a string or null
SatisfiesSchema(d) ==
    \/ d.kind = "json"
    \/ /\ d.kind = "object"
       /\ d.types.unseal_keys \in {"missing", "list_str"}
       /\ \A n \in {"root_token", "approle_role_id", "approle_secret_id"} :
             d.types[n] \in {"missing", "null", "str"}

\* C17 as stated: load_state returns the default state when the file does
\* not exist; when the file exists it returns the state the file holds if the
\* file satisfies the schema and fails with StateCorrupt if it does not.
C17_Original ==
    LoadAttempted
    => IF disk0.kind = "absent" THEN pc = "status1" /\ state = DefaultState
       ELSE IF SatisfiesSchema(disk0) THEN pc = "status1" /\ state = disk0.payload
       ELSE pc = "failed" /\ err = "StateCorrupt"

\* number of probes issued so far for an address
ProbesOf(h) == Cardinality({i \in DOMAIN probes : probes[i] = h})

\* the last probe did not report active: it failed, timed out or printed
\* another status
ProbeUnsuccessful ==
    /\ last.cmd = "ssh"
    /\ hosts /= <<>>
    /\ ~(last.rc = "ok" /\ Strip(last.stdout) = "active")

\* C18 as stated: no host is probed more than 3 times; an unsuccessful probe
\* that is not the third for its host is followed by another probe of the
\* same host, and the third unsuccessful probe ends the run with the error
\* observed on it; a probe that reports active ends the probing of its host.
C18_Original ==
    /\ \A h \in Range(hosts) : ProbesOf(h) <= ProbeAttempts
    /\ ProbeUnsuccessful
         => IF ProbesOf(hosts[hostIdx]) < ProbeAttempts
              THEN /\ pc \in {"ssh", "killed"}
                   /\ attempt = ProbesOf(hosts[hostIdx])
              ELSE /\ pc = "failed"
                   /\ err = IF last.rc = "ok" THEN "ServiceNotActive" ELSE "CommandFailed"
    /\ (last.cmd = "ssh" /\ ~ProbeUnsuccessful /\ pc = "ssh")
         => /\ attempt = 0
            /\ ProbesOf(hosts[hostIdx]) = 0
            /\ ProbesOf(hosts[hostIdx - 1]) \in 1..ProbeAttempts

\* position of an address in the discovery order, 0 for the doctl entry
HostPos(h) == IF h = "doctl" THEN 0 ELSE CHOOSE i \in DOMAIN hosts : hosts[i] = h

\* C19: the hosts are probed in discovery order, one after the other; the
\* verifier moves to the next host, and the run to the state load and the
\* first vault call, only on a probe that reported active, so that no vault
\* call is issued unless every discovered host reported active; when a host
\* has had its probes without reporting active, no later host is probed, no
\* vault call is issued and the state is not loaded, and the run has failed
\* with the error of the last probe: the command failure or the not-active
\* error.
C19_VerifyAllHosts ==
    /\ [](/\ pc = "ssh"
               => /\ hostIdx \in DOMAIN hosts
                  /\ calls = <<>>
                  /\ \A i \in DOMAIN hosts :
                        /\ i < hostIdx => ProbesOf(hosts[i]) \in 1..ProbeAttempts
                        /\ i > hostIdx => ProbesOf(hosts[i]) = 0
          /\ hosts /= <<>>
               => \A i, j \in DOMAIN probes :
                     i < j => HostPos(probes[i]) <= HostPos(probes[j])
          /\ (ProbeUnsuccessful /\ pc = "failed")
               => /\ calls = <<>>
                  /\ state = DefaultState
                  /\ \A i \in DOMAIN hosts : i > hostIdx => ProbesOf(hosts[i]) = 0
                  /\ last.rc /= "timeout"
                       => /\ ProbesOf(hosts[hostIdx]) = ProbeAttempts
                          /\ err \in {"CommandFailed", "ServiceNotActive"}
                          /\ err = last_error)
    /\ [][(pc = "ssh" /\ (hostIdx' /= hostIdx \/ pc' = "status1"))
            => /\ last'.rc = "ok"
               /\ Strip(last'.stdout) = "active"
               /\ pc' = "status1" => hostIdx = Len(hosts)
               /\ pc' = "ssh" => hostIdx' = hostIdx + 1]_vars

C19_Witness ==
    /\ pc = "failed"
    /\ ProbeUnsuccessful
    /\ Len(hosts) = 2
    /\ hostIdx = 1
    /\ ProbesOf(hosts[1]) = ProbeAttempts
    /\ ProbesOf(hosts[2]) = 0
    /\ err = "ServiceNotActive"

\* C20 as stated: every external call that exits non-zero or exceeds its
\* timeout is surfaced as a CommandFailed error: it ends the run with
\* CommandFailed, or, for a probe, is what the retry loop catches as the
\* error of the attempt.
C20_Original ==
    last.rc \in {"fail", "timeout"}
    => \/ pc = "failed" /\ err = "CommandFailed"
       \/ last.cmd = "ssh" /\ last_error = "CommandFailed"

\* the instance list the last doctl call printed has been parsed
Discovered == last.cmd = "doctl" /\ last.rc = "ok"

\* the interfaces of an instance list that are marked public and carry an
\* address
PublicWithAddress(ifaces) ==
    {i \in DOMAIN ifaces :
        ifaces[i].type = "public" /\ ifaces[i].ip_address /= Empty}

\* where an address first occurs on a public interface of the list
FirstOccurrence(ifaces, a) ==
    CHOOSE i \in PublicWithAddress(ifaces) :
        /\ ifaces[i].ip_address = a
        /\ \A j \in PublicWithAddress(ifaces) : ifaces[j].ip_address = a => i <= j

\* C21: the addresses discovery yields are exactly the addresses of the
\* interfaces marked public in the instance list, each once and in the order
\* of their first occurrence; an address that occurs only on a non-public
\* interface, and an interface without an address, contribute nothing.
C21_DiscoverPublicAddresses ==
    Discovered
    => LET ifaces == Flatten(last.droplets)
       IN  /\ Range(hosts) = {ifaces[i].ip_address : i \in PublicWithAddress(ifaces)}
           /\ Empty \notin Range(hosts)
           /\ \A i, j \in DOMAIN hosts :
                 i < j => /\ hosts[i] /= hosts[j]
                          /\ FirstOccurrence(ifaces, hosts[i])
                               < FirstOccurrence(ifaces, hosts[j])

C21_Witness ==
    /\ Discovered
    /\ pc = "ssh"
    /\ Len(Flatten(last.droplets)) = 3
    /\ Len(hosts) = 2
    /\ Flatten(last.droplets)[3].ip_address = hosts[1]
    /\ Flatten(last.droplets)[2].ip_address = hosts[2]

\* C22: when the instance list parses but holds no public interface with an
\* address, the run fails with NoHostsFound right after the doctl call: no
\* probe and no vault call is issued, and the state file is not touched.
C22_NoHostsFound ==
    (Discovered /\ PublicWithAddress(Flatten(last.droplets)) = {})
    => /\ pc = "failed"
       /\ err = "NoHostsFound"
       /\ hosts = <<>>
       /\ probes = <<"doctl">>
       /\ calls = <<>>
       /\ disk = disk0

C22_Witness ==
    /\ Discovered
    /\ err = "NoHostsFound"
    /\ Len(last.droplets) = 1
    /\ last.droplets[1][1].type = "private"

\* the state file holds key shares or a root token
Populated(d) ==
    d.kind = "json" /\ (d.payload.unseal_keys /= <<>> \/ d.payload.root_token /= None)

\* the first status query of the run reported the appliance uninitialised,
\* be it by initialized == false or by a status without that field
FirstStatusUninitialized ==
    calls /= <<>> /\ calls[1].out \in {"false/true", "absent/true"}

\* C23: within a run the key shares and the root token of the state file
\* change only when an operator init response is accepted, which happens at
\* most once; and in a run that finds them populated, against the appliance
\* they belong to (its status does not report it uninitialised), no
\* operator init is issued and neither the file nor the state in memory
\* ever holds other key shares or another root token.
C23_InitMaterialWrittenOnce ==
    /\ [](/\ Count("init") <= 1
          /\ (HasLoaded /\ Populated(disk0) /\ ~FirstStatusUninitialized)
               => /\ Count("init") = 0
                  /\ disk.payload.unseal_keys = disk0.payload.unseal_keys
                  /\ disk.payload.root_token = disk0.payload.root_token
                  /\ state.unseal_keys = disk0.payload.unseal_keys
                  /\ state.root_token = disk0.payload.root_token)
    /\ [][(\/ disk'.payload.unseal_keys /= disk.payload.unseal_keys
           \/ disk'.payload.root_token /= disk.payload.root_token)
            => /\ pc = "init"
               /\ last'.cmd = "init"
               /\ last'.rc = "ok"
               /\ disk'.payload.unseal_keys = last'.unseal_keys_b64
               /\ disk'.payload.root_token = last'.root_token]_vars

C23_Witness ==
    /\ pc = "done"
    /\ prev = "done"
    /\ Populated(disk0)
    /\ disk0.payload.unseal_keys = Keys(MaxShares)
    /\ config.rotate_secret_id
    /\ disk /= disk0
    /\ disk.payload.unseal_keys = Keys(MaxShares)
    /\ disk.payload.root_token = "root"

\* the last response parsed as JSON but lacks a field the step reads, or
\* holds it with another type
MalformedResponse ==
    /\ last.rc = "ok"
    /\ \/ last.cmd = "status" /\ (last.initialized = "absent" \/ last.sealed = "absent")
       \/ last.cmd = "unseal" /\ last.sealed = "absent"
       \/ last.cmd = "init" /\ (last.keys_kind /= "list" \/ last.root_token = None)
       \/ last.cmd = "secret_id" /\ last.secret_id = None

\* C24: a status, init, unseal or secret-id response that lacks an expected
\* field, or holds it with the wrong type, makes the step fail: the run does
\* not proceed on a default for the field.
C24_Original ==
    MalformedResponse => pc \in {"failed", "killed"}

\* C25: every external command the run has issued, be it doctl, an ssh
\* probe or a vault call, was issued with a finite timeout.
C25_Original ==
    /\ \A i \in DOMAIN probes :
          Timeout(IF probes[i] = "doctl" THEN "doctl" ELSE "ssh") /= {}
    /\ \A i \in DOMAIN calls : Timeout("vault") /= {}

\* C26: provided each external call returns, every run reaches a terminal
\* state, and on the way it issues at most 3 probes per host, at most one
\* unseal call per stored key share, at most one operator init and at most
\* 3 status queries.
C26_RunTerminates ==
    /\ [](/\ \A h \in Range(hosts) : ProbesOf(h) <= ProbeAttempts
          /\ \A k \in Range(Keys(MaxShares)) :
                Cardinality({i \in DOMAIN calls :
                    calls[i].cmd = "unseal" /\ calls[i].arg = k}) <= 1
          /\ Len(UnsealCalls) <= Len(state.unseal_keys)
          /\ Count("init") <= 1
          /\ Count("status") <= 3)
    /\ (pc \notin Terminal ~> pc \in Terminal)

C26_Witness ==
    /\ pc = "done"
    /\ Count("status") = 3
    /\ Count("init") = 1
    /\ Len(UnsealCalls) = MaxShares

\* C27: when the state holds no root token once the initialisation and
\* unseal steps are over, the run fails with the missing-root-token error
\* there and then: it has issued no secrets, auth, policy, role or secret-id
\* call, it issues none, and the state file is as the run found it.
C27_MissingRootToken ==
    /\ (HasLoaded /\ state.root_token = None)
         => /\ \A i \in DOMAIN calls : calls[i].cmd \notin LaterPhaseCmds
            /\ pc \notin {"done", "secrets_list", "secrets_enable", "auth_list",
                          "auth_enable", "policy_write", "role_write", "role_id",
                          "secret_id"}
            /\ disk = disk0
    /\ err = "MissingRootToken"
         => /\ pc = "failed"
            /\ state.root_token = None
            /\ calls /= <<>>
            /\ LastCall.cmd \in {"status", "unseal"}
            /\ \A i \in DOMAIN calls : calls[i].cmd \notin LaterPhaseCmds
            /\ disk = disk0

C27_Witness ==
    /\ err = "MissingRootToken"
    /\ Count("unseal") > 0
    /\ Count("status") = 2
    /\ disk.kind = "json"
    /\ disk.payload.unseal_keys /= <<>>

\* C28: whenever bootstrap has returned, the state it returns holds a root
\* token, a role id and a role secret that are neither null nor empty, and
\* the state file holds that state.
C28_Original ==
    pc = "done"
    => /\ TruthyStr(state.root_token)
       /\ TruthyStr(state.approle_role_id)
       /\ TruthyStr(state.approle_secret_id)
       /\ disk = SaveState(state)

\* what _ensure_initialized saved in a run whose operator init succeeded:
\* the unseal keys and the root token of the init output and nothing else
SavedInitOutput ==
    SaveState(UpdateFromInit(DefaultState, state.unseal_keys, state.root_token))

\* C29: a run that has failed leaves the state file as it found it, except
\* when operator init succeeded in that run: then the file holds exactly the
\* initialisation output that was saved.  In neither case does the file
\* hold a role id or a role secret that the failed run obtained.
C29_FailedRunFrame ==
    pc \in {"failed", "rejected", "killed"}
    => IF InitSucceeded
         THEN /\ disk = SavedInitOutput
              /\ disk.payload.approle_role_id = None
              /\ disk.payload.approle_secret_id = None
         ELSE disk = disk0

C29_Witness ==
    /\ pc = "failed"
    /\ InitSucceeded
    /\ LastCall.cmd = "secret_id"
    /\ state.approle_role_id = "rid"
    /\ disk0.kind = "json"
    /\ disk0.payload.approle_role_id = "rid"
    /\ disk /= disk0

----------------------------------------------------------------------------
(* save_state then load_state, at the level of the JSON text.  The file is  *)
(* the document json.dumps writes: an object whose values are tagged with   *)
(* their JSON type.                                                         *)

\* longest unseal_keys list drawn
MaxKeys == 2

JsonNull == [t |-> "null", v |-> Empty]
JsonStr(s) == [t |-> "str", v |-> s]
JsonList(items) == [t |-> "list", v |-> items]

\* faulty variant: an empty string is written as null
EncodeOptional_FalsyAsNull(v) == IF TruthyStr(v) THEN JsonStr(v) ELSE JsonNull

\* json.dumps on a str | None value
EncodeOptional(v) == IF v = None THEN JsonNull ELSE JsonStr(v)

\* json.dumps(state.to_mapping(), indent=2)
DumpMapping(m) ==
    [unseal_keys |-> JsonList([i \in DOMAIN m.unseal_keys |-> JsonStr(m.unseal_keys[i])]),
     root_token |-> EncodeOptional(m.root_token),
     approle_role_id |-> EncodeOptional(m.approle_role_id),
     approle_secret_id |-> EncodeOptional(m.approle_secret_id)]

\* save_state, as the text it leaves at path
SaveText(st) == [kind |-> "text", doc |-> DumpMapping(ToMapping(st))]

\* _validate_list_str_field on a parsed value
IsListStr(j) == j.t = "list" /\ \A i \in DOMAIN j.v : j.v[i].t = "str"

\* _validate_optional_str_field on a parsed value
IsOptionalStr(j) == j.t \in {"null", "str"}

DecodeOptional(j) == IF j.t = "null" THEN None ELSE j.v

\* load_state on the text at path: the validated fields, or the default
\* state when a field is rejected (load_state raises)
LoadText(d) ==
    IF /\ IsListStr(d.doc.unseal_keys)
       /\ IsOptionalStr(d.doc.root_token)
       /\ IsOptionalStr(d.doc.approle_role_id)
       /\ IsOptionalStr(d.doc.approle_secret_id)
      THEN [unseal_keys |-> [i \in DOMAIN d.doc.unseal_keys.v |-> d.doc.unseal_keys.v[i].v],
            root_token |-> DecodeOptional(d.doc.root_token),
            approle_role_id |-> DecodeOptional(d.doc.approle_role_id),
            approle_secret_id |-> DecodeOptional(d.doc.approle_secret_id)]
      ELSE DefaultState

\* strings a field can hold: empty, plain, and ones that read like JSON
FieldStrings == {Empty, "root", "null"}

KeyLists ==
    UNION {[1..n -> {Empty, "k1"}] : n \in 0..MaxKeys}

\* the states with unseal_keys a list of strings and the other fields a
\* string or None
TypedStates ==
    [unseal_keys : KeyLists,
     root_token : FieldStrings \cup {None},
     approle_role_id : {None, Empty, "rid"},
     approle_secret_id : {None, Empty, "null"}]

RoundTripInit ==
    /\ pc = "rt_save"
    /\ state \in TypedStates
    /\ disk = NoFile
    /\ disk0 = disk
    /\ tmp = NoTmp
    /\ config = NoConfig
    /\ status = NoStatus
    /\ hosts = <<>>
    /\ hostIdx = 1
    /\ attempt = 0
    /\ last_error = "none"
    /\ keyIdx = 1
    /\ calls = <<>>
    /\ unsealedAt = 0
    /\ probes = <<>>
    /\ prev = "none"
    /\ last = NoResponse
    /\ err = "none"

\* save_state(path, state)
RoundTripSave ==
    /\ pc = "rt_save"
    /\ disk' = SaveText(state)
    /\ pc' = "rt_load"
    /\ UNCHANGED <<runVars, state, disk0, tmp, err>>

\* state = load_state(path)
RoundTripLoad ==
    /\ pc = "rt_load"
    /\ state' = LoadText(disk)
    /\ pc' = "rt_resave"
    /\ UNCHANGED <<runVars, disk, disk0, tmp, err>>

\* save_state(path, state) on the loaded state
RoundTripResave ==
    /\ pc = "rt_resave"
    /\ disk' = SaveText(state)
    /\ pc' = "rt_done"
    /\ UNCHANGED <<runVars, state, disk0, tmp, err>>

RoundTripNext ==
    \/ RoundTripSave
    \/ RoundTripLoad
    \/ RoundTripResave

RoundTripSpec == RoundTripInit /\ [][RoundTripNext]_vars

\* C30: for every state whose unseal_keys is a list of strings and whose
\* other fields are a string or None, load_state after save_state returns
\* an equal state, and saving the loaded state again leaves the same file
\* contents.
C30_SaveLoadRoundTrip ==
    [][/\ pc = "rt_load" => state' = state
       /\ pc = "rt_resave" => disk' = disk]_vars

C30_Witness ==
    /\ pc = "rt_done"
    /\ state.unseal_keys = <<"k1", Empty>>
    /\ state.root_token = Empty
    /\ state.approle_role_id = None
    /\ state.approle_secret_id = "null"
    /\ disk = SaveText(state)

====
